---- MODULE Spec2Model ----
(***************************************************************************)
(* Open Food Facts client of food-tracker (lib/openfoodfacts): the rate    *)
(* limiter, the retry loop of fetchWithRetry and the two public entry      *)
(* points searchFoods and getFoodByBarcode, run by concurrent callers on   *)
(* one JavaScript event loop.                                              *)
(*                                                                         *)
(* A synchronous stretch of code (from one await to the next) is one       *)
(* action and runs at one instant: every Date.now() in it reads `now`.     *)
(* Time is in milliseconds.  A timer never fires before its deadline; it   *)
(* may fire late.                                                          *)
(*                                                                         *)
(* The normalizer (transformProduct and what it calls) and the nutrition   *)
(* functions recalculateServing and calculateTotalNutrition are operators  *)
(* on numbers held as integers of tenths (upstream values: hundredths),    *)
(* with exact arithmetic.                                                  *)
(*                                                                         *)
(* The useFoodSearch hook (hooks/useFoodSearch.ts) is the record `hook`:   *)
(* its React state and refs, the set of pending debounce timers, and a     *)
(* history of the calls of search and clear.  The continuation of the hook *)
(* after an awaited searchFoods is an action of its own.  The report of    *)
(* getRateLimitStatus and the delays drawn by calculateBackoff are kept in *)
(* `report` and `delays`.                                                  *)
(***************************************************************************)
EXTENDS Integers, Sequences, FiniteSets, TLC

\* ---------------------------------------------------------------------------
\* Bounds of the model
\* ---------------------------------------------------------------------------

\* Number of calls of the public API made over a run (they may overlap).
NumCalls == 2

\* Last instant at which time may still pass without a timer expiring (Elapse).
MaxTime == 1000

\* Math.random() is drawn from {0/RandomSteps, ..., (RandomSteps-1)/RandomSteps}.
RandomSteps == 2

\* Longest product list of a search response body.
MaxProducts == 2

\* Number of calls of search and clear made on the hook over a run.
MaxTyped == 3

\* Highest attempt index calculateBackoff is applied to.
MaxAttempt == 6

\* The two budgets' maxima.  checkRateLimit reads them only through
\* bucket.maxRequests; RATE_LIMIT sets 10 (search) and 100 (product).  The
\* model instantiates them small so that a full window is reached by the
\* calls of a run.
SearchMaxRequests == 2
ProductMaxRequests == 3

\* ---------------------------------------------------------------------------
\* Configuration (RATE_LIMIT, RETRY_CONFIG)
\* ---------------------------------------------------------------------------

windowMs == 60000
maxRetries == 3
baseDelayMs == 1000
maxDelayMs == 10000
DefaultRetryAfterMs == 60000

\* Default search parameters
DEFAULT_PAGE_SIZE == 20
MAX_PAGE_SIZE == 50

\* useFoodSearch's defaults
debounceMs == 300
pageSize == 20
minQueryLength == 2

BucketKeys == {"search", "product"}

maxRequests(b) == IF b = "search" THEN SearchMaxRequests ELSE ProductMaxRequests

Calls == 1..NumCalls

\* Time that passes between two events when no timer expires in between.
Latencies == {500}

\* ---------------------------------------------------------------------------
\* Generic helpers
\* ---------------------------------------------------------------------------

Min(S) == CHOOSE x \in S : \A y \in S : x <= y

Range(s) == {s[i] : i \in 1..Len(s)}

SeqsUpTo(S, n) == UNION {[1..k -> S] : k \in 0..n}

RECURSIVE Pow2(_)
Pow2(n) == IF n = 0 THEN 1 ELSE 2 * Pow2(n - 1)


\* ---------------------------------------------------------------------------
\* Strings: a string is a sequence of one-character strings
\* ---------------------------------------------------------------------------

Digits == {"0", "1", "2", "3", "4", "5", "6", "7", "8", "9"}

DigitValue(ch) ==
  CASE ch = "0" -> 0 [] ch = "1" -> 1 [] ch = "2" -> 2 [] ch = "3" -> 3
    [] ch = "4" -> 4 [] ch = "5" -> 5 [] ch = "6" -> 6 [] ch = "7" -> 7
    [] ch = "8" -> 8 [] ch = "9" -> 9

Rep(ch, n) == [i \in 1..n |-> ch]

\* barcode.replace(/\D/g, '')
StripNonDigits(str) == SelectSeq(str, LAMBDA ch : ch \in Digits)

\* parseInt(str, 10) of a string that starts with a digit: the value of its
\* longest prefix of digits.
RECURSIVE ParseDigits(_, _)
ParseDigits(str, acc) ==
  IF str = << >> \/ Head(str) \notin Digits
    THEN acc
    ELSE ParseDigits(Tail(str), 10 * acc + DigitValue(Head(str)))

parseInt(str) == ParseDigits(str, 0)

\* ---------------------------------------------------------------------------
\* Rate limiter
\* ---------------------------------------------------------------------------

\* bucket.requests after checkRateLimit's filter at instant t.
FilterWindow(reqs, t) == SelectSeq(reqs, LAMBDA time : t - time < windowMs)

\* checkRateLimit's answer, on the filtered list.
checkRateLimit(filtered, b) == Len(filtered) < maxRequests(b)

\* Mutant of recordRequest: the timestamp is pushed twice.
recordRequest_Twice(reqs, t) == Append(Append(reqs, t), t)

recordRequest(reqs, t) == Append(reqs, t)

Max0(x) == IF x < 0 THEN 0 ELSE x

\* Mutant of getWaitTime: waits for the newest timestamp to expire.
getWaitTime_Newest(reqs, t) ==
  IF Len(reqs) = 0 THEN 0
  ELSE Max0(windowMs - (t - (CHOOSE x \in Range(reqs) : \A y \in Range(reqs) : x >= y)))

getWaitTime(reqs, t) ==
  IF Len(reqs) = 0 THEN 0 ELSE Max0(windowMs - (t - Min(Range(reqs))))

\* ---------------------------------------------------------------------------
\* Errors and results
\* ---------------------------------------------------------------------------

\* statusCode 0 and retryAfterMs 0 stand for an absent field, except in a
\* RateLimitError, whose retryAfterMs is always set.
Err(name, code, statusCode, retryAfterMs) ==
  [kind |-> "throw", name |-> name, code |-> code, statusCode |-> statusCode,
   retryAfterMs |-> retryAfterMs, null |-> FALSE, items |-> << >>,
   totalCount |-> 0, page |-> 0, pageSize |-> 0, hasMore |-> FALSE]

RateLimitError(retryAfterMs) ==
  Err("RateLimitError", "RATE_LIMIT_EXCEEDED", 0, retryAfterMs)

NetworkError == Err("NetworkError", "NETWORK_ERROR", 0, 0)

HttpError(status) == Err("OpenFoodFactsError", "HTTP_ERROR", status, 0)

InvalidBarcodeError == Err("OpenFoodFactsError", "INVALID_BARCODE", 0, 0)

IncompleteDataError == Err("OpenFoodFactsError", "INCOMPLETE_DATA", 0, 0)

\* What response.json() throws on a body that is not JSON.
SyntaxError == Err("SyntaxError", "", 0, 0)

\* A value returned: null, a FoodItem (items has it alone), or a
\* FoodSearchResult; the last four fields are set in a FoodSearchResult only.
Returns(null, items) ==
  [kind |-> "return", name |-> "", code |-> "", statusCode |-> 0,
   retryAfterMs |-> 0, null |-> null, items |-> items,
   totalCount |-> 0, page |-> 0, pageSize |-> 0, hasMore |-> FALSE]

NoResult ==
  [kind |-> "none", name |-> "", code |-> "", statusCode |-> 0,
   retryAfterMs |-> 0, null |-> FALSE, items |-> << >>,
   totalCount |-> 0, page |-> 0, pageSize |-> 0, hasMore |-> FALSE]

\* ---------------------------------------------------------------------------
\* Backoff
\* ---------------------------------------------------------------------------

BackoffBase(attempt) ==
  IF baseDelayMs * Pow2(attempt) < maxDelayMs
    THEN baseDelayMs * Pow2(attempt) ELSE maxDelayMs

\* Mutant of calculateBackoff: the jitter is centred on the capped delay.
calculateBackoff_Centered(attempt, k) ==
  BackoffBase(attempt) - BackoffBase(attempt) \div 8
    + (k * BackoffBase(attempt)) \div (4 * RandomSteps)

\* calculateBackoff with Math.random() = k / RandomSteps; the timer takes the
\* delay truncated to a whole number of milliseconds.
calculateBackoff(attempt, k) ==
  BackoffBase(attempt) + (k * BackoffBase(attempt)) \div (4 * RandomSteps)

RandomDraws == 0..(RandomSteps - 1)

\* ---------------------------------------------------------------------------
\* Upstream records and the validator / normalizer
\* ---------------------------------------------------------------------------

\* Numbers.  An upstream value is held in hundredths (539 kcal is 53900); a
\* value of a FoodItem, a gram quantity and a number of servings are held in
\* tenths (6.3 g is 63).  Arithmetic is exact.

\* An optional number: undefined, or the number n.
None == [def |-> FALSE, n |-> 0]

Some(n) == [def |-> TRUE, n |-> n]

\* !x of an optional number: undefined and 0 are falsy.
Falsy(o) == ~o.def \/ o.n = 0

\* x || 0
OrZero(o) == IF Falsy(o) THEN 0 ELSE o.n

\* Math.round(a / b) for b > 0: the nearest integer, a half going up.
RoundDiv(a, b) == (2 * a + b) \div (2 * b)

\* The nutriments object: its fields (keys) and their values in hundredths.
NoNutriments == [present |-> FALSE, keys |-> {}, val |-> << >>]

Nutriments(val) == [present |-> TRUE, keys |-> DOMAIN val, val |-> val]

RawRecord(code, pn, pnEn, pnFr, gen, nutriments) ==
  [code |-> code, product_name |-> pn, product_name_en |-> pnEn,
   product_name_fr |-> pnFr, product_name_de |-> "", generic_name |-> gen,
   brands |-> << >>, serving_size |-> << >>, serving_quantity |-> None,
   nutriments |-> nutriments]

\* The record r with the serving fields set.
WithServing(r, size, quantity) ==
  [r EXCEPT !.serving_size = size, !.serving_quantity = quantity]

\* An absent string field is "" (both are falsy in the source's tests).
RawRecords ==
  { [RawRecord("3017620422003", "Nutella", "", "", "",
               Nutriments("energy-kcal_100g" :> 53900 @@ "energy_100g" :> 225200))
       EXCEPT !.product_name_en = "Hazelnut spread"],
    [RawRecord("20000001", "", "", "", "Oat drink",
               Nutriments("energy-kcal" :> 4600 @@ "energy" :> 19200))
       EXCEPT !.product_name_de = "Haferdrink"],
    RawRecord("20000002", "", "", "Pain", "", Nutriments("energy_100g" :> 110000)),
    RawRecord("20000003", "Water", "", "", "", Nutriments("energy" :> 0)),
    RawRecord("20000004", "Salt", "Salt", "", "", NoNutriments) }

\* Mutant of hasValidNutrition: a name or an energy figure is enough.
hasValidNutrition_Either(product) ==
  /\ product.nutriments.present
  /\ \/ product.nutriments.keys \cap {"energy-kcal_100g", "energy_100g", "energy-kcal"} # {}
     \/ product.product_name # ""
     \/ product.product_name_en # ""
     \/ product.generic_name # ""

hasValidNutrition(product) ==
  IF ~product.nutriments.present THEN FALSE
  ELSE
    LET hasCalories ==
          \/ "energy-kcal_100g" \in product.nutriments.keys
          \/ "energy_100g" \in product.nutriments.keys
          \/ "energy-kcal" \in product.nutriments.keys
        hasName ==
          \/ product.product_name # ""
          \/ product.product_name_en # ""
          \/ product.generic_name # ""
    IN hasCalories /\ hasName

\* Mutant of getProductName: the generic name is preferred.
getProductName_GenericFirst(product) ==
  IF product.generic_name # "" THEN product.generic_name
  ELSE IF product.product_name # "" THEN product.product_name
  ELSE IF product.product_name_en # "" THEN product.product_name_en
  ELSE IF product.product_name_fr # "" THEN product.product_name_fr
  ELSE IF product.product_name_de # "" THEN product.product_name_de
  ELSE "Unknown Product"

getProductName(product) ==
  IF product.product_name # "" THEN product.product_name
  ELSE IF product.product_name_en # "" THEN product.product_name_en
  ELSE IF product.product_name_fr # "" THEN product.product_name_fr
  ELSE IF product.product_name_de # "" THEN product.product_name_de
  ELSE IF product.generic_name # "" THEN product.generic_name
  ELSE "Unknown Product"

Whitespace == {" "}

\* Index of the first comma at or after i (Len + 1 if there is none): where
\* split(',')[0] ends.
RECURSIVE CommaAt(_, _)
CommaAt(str, i) ==
  IF i <= Len(str) /\ str[i] # "," THEN CommaAt(str, i + 1) ELSE i

\* str.trim()
RECURSIVE Trim(_)
Trim(str) ==
  IF str = << >> THEN str
  ELSE IF Head(str) \in Whitespace THEN Trim(Tail(str))
  ELSE IF str[Len(str)] \in Whitespace THEN Trim(SubSeq(str, 1, Len(str) - 1))
  ELSE str

\* getBrand; << >> stands for undefined.
getBrand(product) ==
  IF product.brands = << >> THEN << >>
  ELSE Trim(SubSeq(product.brands, 1, CommaAt(product.brands, 1) - 1))

\* Last index of the run of digits that starts at i (i - 1 if there is none).
RECURSIVE DigitRunEnd(_, _)
DigitRunEnd(str, i) ==
  IF i <= Len(str) /\ str[i] \in Digits THEN DigitRunEnd(str, i + 1) ELSE i - 1

\* First index at or after i that holds no whitespace: \s*
RECURSIVE SkipSpaces(_, _)
SkipSpaces(str, i) ==
  IF i <= Len(str) /\ str[i] \in Whitespace THEN SkipSpaces(str, i + 1) ELSE i

\* The i flag of the two patterns, on the letters they name.
ToLower(ch) ==
  CASE ch = "G" -> "g" [] ch = "M" -> "m" [] ch = "L" -> "l" [] OTHER -> ch

UnitAt(str, p, unit) ==
  /\ p + Len(unit) - 1 <= Len(str)
  /\ \A d \in 1..Len(unit) : ToLower(str[p + d - 1]) = unit[d]

\* /(\d+(?:\.\d+)?)\s*<unit>/i tried at position i: whether it matches, and
\* parseFloat of its group in tenths (digits after the first decimal are cut).
NumberMatch(str, i, unit) ==
  LET j == DigitRunEnd(str, i)
      hasFrac == j >= i /\ j + 2 <= Len(str) /\ str[j + 1] = "." /\ str[j + 2] \in Digits
      k == IF hasFrac THEN DigitRunEnd(str, j + 2) ELSE j
  IN [ok |-> j >= i /\ UnitAt(str, SkipSpaces(str, k + 1), unit),
      value |-> 10 * ParseDigits(SubSeq(str, i, j), 0)
                  + (IF hasFrac THEN DigitValue(str[j + 2]) ELSE 0)]

\* str.match(pattern): the leftmost match, as an optional number.
FirstMatch(str, unit) ==
  LET starts == {i \in 1..Len(str) : NumberMatch(str, i, unit).ok}
  IN IF starts = {} THEN None ELSE Some(NumberMatch(str, Min(starts), unit).value)

parseServingQuantity(servingSize) ==
  IF servingSize = << >> THEN None
  ELSE IF FirstMatch(servingSize, <<"g">>).def THEN FirstMatch(servingSize, <<"g">>)
  ELSE FirstMatch(servingSize, <<"m", "l">>)

\* Math.round(v) and Math.round(v / 4.184) of an upstream value, in tenths.
RoundKcal(v) == 10 * RoundDiv(v, 100)

\* Mutant of KjToKcal: divides by 4.
KjToKcal_ByFour(v) == 10 * RoundDiv(v, 400)

KjToKcal(v) == 10 * RoundDiv(10 * v, 4184)

\* Mutant of getCalories: the generic energy field is read first.
getCalories_GenericFirst(nutriments, per100g) ==
  IF ~nutriments.present THEN 0
  ELSE IF "energy" \in nutriments.keys
    THEN IF nutriments.val["energy"] > 40000
           THEN KjToKcal(nutriments.val["energy"])
           ELSE RoundKcal(nutriments.val["energy"])
  ELSE IF "energy-kcal_100g" \in nutriments.keys
    THEN RoundKcal(nutriments.val["energy-kcal_100g"])
  ELSE IF "energy_100g" \in nutriments.keys
    THEN KjToKcal(nutriments.val["energy_100g"])
  ELSE IF "energy-kcal" \in nutriments.keys
    THEN RoundKcal(nutriments.val["energy-kcal"])
  ELSE 0

getCalories(nutriments, per100g) ==
  IF ~nutriments.present THEN 0
  ELSE IF per100g THEN
    IF "energy-kcal_100g" \in nutriments.keys
      THEN RoundKcal(nutriments.val["energy-kcal_100g"])
    ELSE IF "energy_100g" \in nutriments.keys
      THEN KjToKcal(nutriments.val["energy_100g"])
    ELSE IF "energy-kcal" \in nutriments.keys
      THEN RoundKcal(nutriments.val["energy-kcal"])
    ELSE IF "energy" \in nutriments.keys
      THEN IF nutriments.val["energy"] > 40000
             THEN KjToKcal(nutriments.val["energy"])
             ELSE RoundKcal(nutriments.val["energy"])
    ELSE 0
  ELSE
    IF "energy-kcal_serving" \in nutriments.keys
      THEN RoundKcal(nutriments.val["energy-kcal_serving"])
    ELSE IF "energy_serving" \in nutriments.keys
      THEN KjToKcal(nutriments.val["energy_serving"])
    ELSE 0

\* `${nutrientName}${suffix}`
SuffixedKey(nutrientName, per100g) ==
  CASE nutrientName = "proteins" ->
         IF per100g THEN "proteins_100g" ELSE "proteins_serving"
    [] nutrientName = "carbohydrates" ->
         IF per100g THEN "carbohydrates_100g" ELSE "carbohydrates_serving"
    [] nutrientName = "fat" ->
         IF per100g THEN "fat_100g" ELSE "fat_serving"

\* Math.round(value * 10) / 10, in tenths.
getNutrient(nutriments, nutrientName, per100g) ==
  IF ~nutriments.present THEN 0
  ELSE IF SuffixedKey(nutrientName, per100g) \in nutriments.keys
    THEN RoundDiv(nutriments.val[SuffixedKey(nutrientName, per100g)], 10)
  ELSE IF nutrientName \in nutriments.keys
    THEN RoundDiv(nutriments.val[nutrientName], 10)
  ELSE 0

\* per100g and servingQuantityGrams in tenths:
\* Math.round((per100g * grams) / 100 * 10) / 10
calculatePerServing(per100g, servingQuantityGrams) ==
  IF servingQuantityGrams <= 0 THEN per100g
  ELSE RoundDiv(per100g * servingQuantityGrams, 1000)

\* The normalized item: identity, names, serving and the four nutrients (the
\* optional nutrients, images and quality indicators are left out).
transformProduct(product) ==
  LET nutriments == product.nutriments
      servingSize ==
        IF product.serving_size # << >> THEN product.serving_size
        ELSE <<"1", "0", "0", "g">>
      servingQuantity ==
        IF ~Falsy(product.serving_quantity) THEN product.serving_quantity.n
        ELSE IF ~Falsy(parseServingQuantity(servingSize))
          THEN parseServingQuantity(servingSize).n
        ELSE 1000
      caloriesPer100g == getCalories(nutriments, TRUE)
      proteinPer100g == getNutrient(nutriments, "proteins", TRUE)
      carbsPer100g == getNutrient(nutriments, "carbohydrates", TRUE)
      fatPer100g == getNutrient(nutriments, "fat", TRUE)
  IN [kind |-> "item",
      id |-> product.code, source |-> "openfoodfacts", sourceId |-> product.code,
      name |-> getProductName(product), brand |-> getBrand(product),
      servingSize |-> servingSize, servingQuantity |-> Some(servingQuantity),
      calories |-> calculatePerServing(caloriesPer100g, servingQuantity),
      protein |-> calculatePerServing(proteinPer100g, servingQuantity),
      carbs |-> calculatePerServing(carbsPer100g, servingQuantity),
      fat |-> calculatePerServing(fatPer100g, servingQuantity),
      caloriesPer100g |-> Some(caloriesPer100g),
      proteinPer100g |-> Some(proteinPer100g),
      carbsPer100g |-> Some(carbsPer100g),
      fatPer100g |-> Some(fatPer100g)]

\* String(n) of a natural number, and of a number held in tenths.
DigitChar(d) == CHOOSE ch \in Digits : DigitValue(ch) = d

RECURSIVE NatToString(_)
NatToString(n) ==
  IF n < 10 THEN << DigitChar(n) >>
  ELSE NatToString(n \div 10) \o << DigitChar(n % 10) >>

NumberToString(t) ==
  LET a == IF t < 0 THEN 0 - t ELSE t
      digits == IF a % 10 = 0 THEN NatToString(a \div 10)
                ELSE NatToString(a \div 10) \o <<".">> \o << DigitChar(a % 10) >>
  IN IF t < 0 THEN <<"-">> \o digits ELSE digits

\* Mutant of recalculateServing: the new per-serving calories are written to
\* the baseline as well.
recalculateServing_OverwritesBaseline(food, newServingGrams) ==
  IF Falsy(food.caloriesPer100g) THEN food
  ELSE [food EXCEPT
          !.servingSize = NumberToString(newServingGrams) \o <<"g">>,
          !.servingQuantity = Some(newServingGrams),
          !.calories = calculatePerServing(food.caloriesPer100g.n, newServingGrams),
          !.caloriesPer100g = Some(calculatePerServing(food.caloriesPer100g.n, newServingGrams)),
          !.protein = calculatePerServing(OrZero(food.proteinPer100g), newServingGrams),
          !.carbs = calculatePerServing(OrZero(food.carbsPer100g), newServingGrams),
          !.fat = calculatePerServing(OrZero(food.fatPer100g), newServingGrams)]

\* Mutant of recalculateServing: the result is built field by field and the
\* brand and the source id are forgotten.
recalculateServing_FreshItem(food, newServingGrams) ==
  IF Falsy(food.caloriesPer100g) THEN food
  ELSE [food EXCEPT
          !.brand = << >>,
          !.sourceId = "",
          !.servingSize = NumberToString(newServingGrams) \o <<"g">>,
          !.servingQuantity = Some(newServingGrams),
          !.calories = calculatePerServing(food.caloriesPer100g.n, newServingGrams),
          !.protein = calculatePerServing(OrZero(food.proteinPer100g), newServingGrams),
          !.carbs = calculatePerServing(OrZero(food.carbsPer100g), newServingGrams),
          !.fat = calculatePerServing(OrZero(food.fatPer100g), newServingGrams)]

\* Mutant of recalculateServing: the per-serving values are scaled as if they
\* were the baseline.
recalculateServing_FromPerServing(food, newServingGrams) ==
  IF Falsy(food.caloriesPer100g) THEN food
  ELSE [food EXCEPT
          !.servingSize = NumberToString(newServingGrams) \o <<"g">>,
          !.servingQuantity = Some(newServingGrams),
          !.calories = calculatePerServing(food.calories, newServingGrams),
          !.protein = calculatePerServing(food.protein, newServingGrams),
          !.carbs = calculatePerServing(food.carbs, newServingGrams),
          !.fat = calculatePerServing(food.fat, newServingGrams)]

recalculateServing(food, newServingGrams) ==
  IF Falsy(food.caloriesPer100g) THEN food
  ELSE [food EXCEPT
          !.servingSize = NumberToString(newServingGrams) \o <<"g">>,
          !.servingQuantity = Some(newServingGrams),
          !.calories = calculatePerServing(food.caloriesPer100g.n, newServingGrams),
          !.protein = calculatePerServing(OrZero(food.proteinPer100g), newServingGrams),
          !.carbs = calculatePerServing(OrZero(food.carbsPer100g), newServingGrams),
          !.fat = calculatePerServing(OrZero(food.fatPer100g), newServingGrams)]

\* Mutant of calculateTotalNutrition: calories are rounded like the others.
calculateTotalNutrition_OneDecimal(food, servings) ==
  [calories |-> RoundDiv(food.calories * servings, 10),
   protein |-> RoundDiv(food.protein * servings, 10),
   carbs |-> RoundDiv(food.carbs * servings, 10),
   fat |-> RoundDiv(food.fat * servings, 10)]

\* servings in tenths: Math.round(calories * servings), and
\* Math.round(x * servings * 10) / 10 for the three others.
calculateTotalNutrition(food, servings) ==
  [calories |-> 10 * RoundDiv(food.calories * servings, 100),
   protein |-> RoundDiv(food.protein * servings, 10),
   carbs |-> RoundDiv(food.carbs * servings, 10),
   fat |-> RoundDiv(food.fat * servings, 10)]

\* (data.products || []).filter(hasValidNutrition).map(transformProduct)
RECURSIVE FilterMap(_)
FilterMap(products) ==
  IF products = << >> THEN << >>
  ELSE IF hasValidNutrition(Head(products))
    THEN << transformProduct(Head(products)) >> \o FilterMap(Tail(products))
    ELSE FilterMap(Tail(products))

\* ---------------------------------------------------------------------------
\* Inputs: arguments of the calls and what the upstream may answer
\* ---------------------------------------------------------------------------

Queries == { <<"e", "g", "g">> }

\* The empty query and a query of one character.
ShortQueries == { << >>, <<"a">> }

\* 8 digits with a separator, 14 digits; 7 digits among 9 characters,
\* 15 digits, no digit at all.
Barcodes ==
  { Rep("1", 4) \o <<"-">> \o Rep("2", 4),
    Rep("3", 14),
    <<"1", "2", " ", "3", "4", "5", " ", "6", "7">>,
    Rep("4", 15),
    <<"a", "b", "c">> }

\* Nutriments of the records the nutrition functions are applied to, in
\* hundredths: kcal per 100 g; kJ per 100 g with a protein value that rounds;
\* the unsuffixed fields; the generic energy field alone, above, at and below
\* the kJ threshold; zero calories; a negative value; values with a second
\* decimal.
NutrimentValues ==
  { "energy-kcal_100g" :> 53900 @@ "proteins_100g" :> 630
      @@ "carbohydrates_100g" :> 5750 @@ "fat_100g" :> 3090,
    "energy_100g" :> 225200 @@ "proteins_100g" :> 635 @@ "fat_100g" :> 3094,
    "energy-kcal" :> 9500 @@ "proteins" :> 125 @@ "carbohydrates" :> 2000,
    "energy" :> 185000 @@ "fat_100g" :> 500,
    "energy" :> 9500,
    "energy" :> 40000,
    "energy" :> 40100,
    "energy-kcal_100g" :> 0 @@ "proteins_100g" :> 10,
    "energy-kcal_100g" :> 5000 @@ "proteins_100g" :> (0 - 500),
    "energy-kcal_100g" :> 5340 @@ "proteins_100g" :> 24 }

\* serving_size and serving_quantity (in tenths) of those records.
ServingFields ==
  { << << >>, None >>,
    << <<"3", "0", "g">>, None >>,
    << <<"1", "5", "g">>, Some(150) >>,
    << <<"2", ".", "5", " ", "G">>, None >>,
    << <<"1", " ", "c", "u", "p", " ", "(", "2", "4", "0", "m", "l", ")">>, None >>,
    << <<"1", " ", "c", "u", "p">>, None >>,
    << <<"0", "g">>, None >>,
    << << >>, Some(0) >>,
    << << >>, Some(0 - 50) >> }

NutritionRecords ==
  RawRecords \cup
  { WithServing([RawRecord("3017620422003", "Nutella", "", "", "", Nutriments(v))
                   EXCEPT !.brands = <<" ", "F", "e", ",", "N">>],
                sf[1], sf[2]) : v \in NutrimentValues, sf \in ServingFields }

\* A FoodItem made by hand, without baseline and serving quantity (the one
\* of the tests), and one whose baseline is partly given.
ManualItems ==
  { [kind |-> "item", id |-> "test", source |-> "openfoodfacts", sourceId |-> "",
     name |-> "Test Food", brand |-> << >>,
     servingSize |-> <<"1", "0", "0", "g">>, servingQuantity |-> None,
     calories |-> 1000, protein |-> 100, carbs |-> 200, fat |-> 50,
     caloriesPer100g |-> None, proteinPer100g |-> None,
     carbsPer100g |-> None, fatPer100g |-> None],
    [kind |-> "item", id |-> "label", source |-> "manual", sourceId |-> "",
     name |-> "Scanned", brand |-> << >>,
     servingSize |-> <<"4", "0", "g">>, servingQuantity |-> Some(400),
     calories |-> 800, protein |-> 20, carbs |-> 100, fat |-> 30,
     caloriesPer100g |-> Some(2000), proteinPer100g |-> None,
     carbsPer100g |-> Some(250), fatPer100g |-> Some(75)] }

\* Gram arguments of recalculateServing and serving counts of
\* calculateTotalNutrition, in tenths.
Grams == {0 - 50, 0, 25, 150, 300, 1000}

ServingCounts == {0, 5, 10, 25}

\* Retry-After of a 429: absent (headers.get gives null), or delay-seconds.
NoHeader == << >>

RetryAfterHeaders == { NoHeader, <<"0">>, <<"1", "2">> }

NoProduct == RawRecord("", "", "", "", "", NoNutriments)

\* count and page of a search response are absent unless set (Paged).
Body(json, status, hasProduct, product, products) ==
  [json |-> json, status |-> status, hasProduct |-> hasProduct,
   product |-> product, products |-> products, count |-> None, page |-> None]

\* The search body b with its count and page fields set.
Paged(b, count, page) == [b EXCEPT !.count = count, !.page = page]

NoBody == Body(FALSE, 0, FALSE, NoProduct, << >>)

\* Bodies of a search response: not JSON, or JSON with a product list (an
\* absent list and an empty one are both read as []).
SearchBodies ==
  { NoBody } \cup
  { Body(TRUE, 0, FALSE, NoProduct, ps) : ps \in SeqsUpTo(RawRecords, MaxProducts) }

\* Bodies of a lookup response: not JSON, status 0 or 1 without a product,
\* status 0 or 1 with one.
LookupBodies ==
  { NoBody } \cup
  { Body(TRUE, st, FALSE, NoProduct, << >>) : st \in {0, 1} } \cup
  { Body(TRUE, 1, TRUE, r, << >>) : r \in RawRecords } \cup
  { Body(TRUE, 0, TRUE, r, << >>) : r \in {CHOOSE x \in RawRecords : hasValidNutrition(x)} }

Response(status, retryAfter, body) ==
  [type |-> "response", status |-> status, retryAfter |-> retryAfter, body |-> body]

\* fetch() rejects (network failure).
FetchRejected == [type |-> "error", status |-> 0, retryAfter |-> NoHeader, body |-> NoBody]

\* The ways a fetch settles, its 200 and 404 answers carrying a body of bodies.
OutcomesOver(bodies) ==
  { FetchRejected } \cup
  { Response(st, NoHeader, b) : st \in {200, 404}, b \in bodies } \cup
  { Response(429, h, NoBody) : h \in RetryAfterHeaders } \cup
  { Response(st, NoHeader, NoBody) : st \in {400, 403, 500, 503} }

SearchOutcomes == OutcomesOver(SearchBodies)

\* Search bodies that carry count and page: an empty list or one record,
\* with count absent, 0, or at and around the page limits, and page absent,
\* 1 or 2.
PagedBodies ==
  { Paged(Body(TRUE, 0, FALSE, NoProduct, ps), count, page) :
      ps \in { << >>, << CHOOSE x \in RawRecords : hasValidNutrition(x) >> },
      count \in { None, Some(0), Some(10), Some(21), Some(51) },
      page \in { None, Some(1), Some(2) } }

\* The upstream answers a search with such a body, or is overloaded.
PagedOutcomes ==
  { Response(200, NoHeader, b) : b \in PagedBodies }
    \cup { Response(503, NoHeader, NoBody) }

LookupOutcomes == OutcomesOver(LookupBodies)

\* The ways a fetch of the function f settles.
Outcomes(f) == IF f = "searchFoods" THEN SearchOutcomes ELSE LookupOutcomes

\* The same, the search answers with count and page included.
Settlements(f) == IF f = "searchFoods" THEN SearchOutcomes \cup PagedOutcomes ELSE LookupOutcomes

\* What a call last met: nothing yet, a full budget, or a settled fetch.
NoEvent == [type |-> "none", status |-> 0, retryAfter |-> NoHeader, body |-> NoBody]

Limited == [type |-> "limited", status |-> 0, retryAfter |-> NoHeader, body |-> NoBody]

\* The options argument of searchFoods: page and pageSize, each optional.
Options(page, size) == [page |-> page, pageSize |-> size]

NoOptions == Options(None, None)

\* Arguments of a paged search: no options, pages of 5, a page of the
\* largest size, a size above it, a page without a size.
SearchOptions ==
  { NoOptions, Options(Some(1), Some(5)), Options(Some(2), Some(5)),
    Options(Some(2), Some(50)), Options(Some(1), Some(100)), Options(Some(3), None) }

\* The hook as useFoodSearch sets it up.  typed, sent, from and loaded are
\* history: the calls of search and clear so far, the handles of the timers
\* that fired, the query and page each item of results was returned for, and
\* the number of pages put into results since the last search or clear.
NewHook ==
  [results |-> << >>, totalCount |-> 0, hasMore |-> FALSE, isLoading |-> FALSE,
   isLoadingMore |-> FALSE, error |-> "", rateLimitWarning |-> FALSE,
   currentQuery |-> << >>, currentPage |-> 1, debounceTimer |-> 0,
   abortController |-> 0, timers |-> {}, awaiting |-> {},
   typed |-> << >>, sent |-> {}, from |-> << >>, loaded |-> 0]

\* No item is held; no nutrition function has been applied.
NoItem == [kind |-> "none"]

NoCalc == [op |-> "none"]

\* getRateLimitStatus has not been called.
NoReport == [called |-> FALSE]

\* ---------------------------------------------------------------------------
\* State
\* ---------------------------------------------------------------------------

VARIABLES
  now,       \* Date.now()
  requests,  \* rateLimitBuckets[b].requests
  pc,        \* where each call stands: idle, rateSleep, fetching, retrySleep, done
  fn,        \* the function called: searchFoods or getFoodByBarcode
  arg,       \* its argument (query or barcode)
  attempt,   \* fetchWithRetry's loop variable
  wake,      \* deadline of the timer the call sleeps on
  result,    \* what the call returned or threw
  fetches,   \* number of fetch() invocations the call has made
  last,      \* what the call last met (history)
  aborted,   \* the caller has aborted its AbortController (history)
  via,       \* how the call entered: facade, hook (useFoodSearch) or route (GET)
  held,      \* the FoodItem the application holds
  original,  \* that item as the normalizer produced it (history)
  calc,      \* the last application of a nutrition function (history)
  options,   \* the page and pageSize a search was called with
  delays,    \* calculateBackoff's delays for the attempts 0, 1, ... (history)
  report,    \* what getRateLimitStatus last reported, and when (history)
  hook       \* the state and refs of one useFoodSearch hook

vars == <<now, requests, pc, fn, arg, attempt, wake, result, fetches, last, aborted,
          via, held, original, calc, options, delays, report, hook>>

\* The state of the client, and the state of the nutrition functions.
clientVars ==
  <<now, requests, pc, fn, arg, attempt, wake, result, fetches, last, aborted, via, options>>

dataVars == <<held, original, calc>>

\* What is computed or kept beside the calls.
sideVars == <<delays, report, hook>>

bucketKey(c) == IF fn[c] = "searchFoods" THEN "search" ELSE "product"

Init ==
  /\ now = 0
  /\ requests = [b \in BucketKeys |-> << >>]
  /\ pc = [c \in Calls |-> "idle"]
  /\ fn = [c \in Calls |-> "none"]
  /\ arg = [c \in Calls |-> << >>]
  /\ attempt = [c \in Calls |-> 0]
  /\ wake = [c \in Calls |-> 0]
  /\ result = [c \in Calls |-> NoResult]
  /\ fetches = [c \in Calls |-> 0]
  /\ last = [c \in Calls |-> NoEvent]
  /\ aborted = [c \in Calls |-> FALSE]
  /\ via = [c \in Calls |-> "none"]
  /\ options = [c \in Calls |-> NoOptions]
  /\ held = NoItem
  /\ original = NoItem
  /\ calc = NoCalc
  /\ delays = << >>
  /\ report = NoReport
  /\ hook = NewHook

\* ---------------------------------------------------------------------------
\* fetchWithRetry
\* ---------------------------------------------------------------------------

\* Mutant of RetryAfterMs: the header's seconds are taken as milliseconds.
RetryAfterMs_Seconds(retryAfter) ==
  IF retryAfter # NoHeader THEN parseInt(retryAfter) ELSE DefaultRetryAfterMs

\* retryAfter ? parseInt(retryAfter, 10) * 1000 : 60000
RetryAfterMs(retryAfter) ==
  IF retryAfter # NoHeader THEN parseInt(retryAfter) * 1000 ELSE DefaultRetryAfterMs

\* response.ok
IsOk(status) == status >= 200 /\ status <= 299

\* Mutant of RetriesLeft: gives up one attempt early.
RetriesLeft_OneLess(a) == a < maxRetries - 1

\* attempt < RETRY_CONFIG.maxRetries
RetriesLeft(a) == a < maxRetries

\* attempt === RETRY_CONFIG.maxRetries
IsFinalAttempt(a) == a = maxRetries

\* Mutant of NextAttempt: continue without counting the attempt.
NextAttempt_Stuck(a) == a

\* attempt++ of the for loop
NextAttempt(a) == a + 1

\* attempt <= RETRY_CONFIG.maxRetries, the for loop's condition
LoopCondition(a) == a <= maxRetries

\* Mutant of IsServerError: every error status is retried.
IsServerError_AnyError(status) == status >= 400

\* The 5xx test of the HTTP-error branch.
IsServerError(status) == status >= 500

Throw(c, e) ==
  /\ pc' = [pc EXCEPT ![c] = "done"]
  /\ result' = [result EXCEPT ![c] = e]

\* await sleep(ms): the call resumes no earlier than now + ms.
Sleep(c, kind, ms) ==
  /\ pc' = [pc EXCEPT ![c] = kind]
  /\ wake' = [wake EXCEPT ![c] = now + ms]

\* sleep's timer has expired.
SleepOver(c) == now >= wake[c]

\* try { recordRequest(bucket); fetch(url, ...) on the list reqs of bucket b.
RecordAndFetch(c, b, reqs) ==
  /\ requests' = [requests EXCEPT ![b] = recordRequest(reqs, now)]
  /\ pc' = [pc EXCEPT ![c] = "fetching"]
  /\ fetches' = [fetches EXCEPT ![c] = @ + 1]

\* for (attempt = a; attempt <= maxRetries; ...) { if (!checkRateLimit) ... }
\* up to the first await, for call c on bucket b.
LoopHead(c, b, a) ==
  LET filtered == FilterWindow(requests[b], now) IN
  /\ attempt' = [attempt EXCEPT ![c] = a]
  /\ IF ~LoopCondition(a)
       THEN /\ Throw(c, NetworkError)
            /\ UNCHANGED <<requests, wake, fetches, last>>
       ELSE IF ~checkRateLimit(filtered, b)
         THEN /\ requests' = [requests EXCEPT ![b] = filtered]
              /\ last' = [last EXCEPT ![c] = Limited]
              /\ fetches' = fetches
              /\ IF IsFinalAttempt(a)
                   THEN /\ Throw(c, RateLimitError(getWaitTime(filtered, now)))
                        /\ wake' = wake
                   ELSE /\ Sleep(c, "rateSleep", getWaitTime(filtered, now))
                        /\ result' = result
         ELSE /\ RecordAndFetch(c, b, filtered)
              /\ UNCHANGED <<wake, result, last>>

\* The call resumes after `await sleep(waitTime)` of the rate-limit branch.
RateLimitSleepEnds(c) ==
  /\ pc[c] = "rateSleep"
  /\ SleepOver(c)
  /\ RecordAndFetch(c, bucketKey(c), requests[bucketKey(c)])
  /\ UNCHANGED <<now, fn, arg, attempt, wake, result, last, aborted, via, options, dataVars, sideVars>>

\* The call resumes after `await sleep(...)` of a retry branch: continue.
RetrySleepEnds(c) ==
  /\ pc[c] = "retrySleep"
  /\ SleepOver(c)
  /\ LoopHead(c, bucketKey(c), NextAttempt(attempt[c]))
  /\ UNCHANGED <<now, fn, arg, aborted, via, options, dataVars, sideVars>>

\* ---------------------------------------------------------------------------
\* The facade after fetchWithRetry has returned the response
\* ---------------------------------------------------------------------------

\* const { page = 1, pageSize = DEFAULT_PAGE_SIZE } = options
PageOf(opts) == IF opts.page.def THEN opts.page.n ELSE 1

PageSizeOf(opts) == IF opts.pageSize.def THEN opts.pageSize.n ELSE DEFAULT_PAGE_SIZE

\* Mutant of limitedPageSize: the page size is not limited.
limitedPageSize_AsAsked(opts) == PageSizeOf(opts)

\* Math.min(pageSize, MAX_PAGE_SIZE)
limitedPageSize(opts) ==
  IF PageSizeOf(opts) < MAX_PAGE_SIZE THEN PageSizeOf(opts) ELSE MAX_PAGE_SIZE

searchFoodsResult(body, opts) ==
  IF ~body.json THEN SyntaxError
  ELSE [Returns(FALSE, FilterMap(body.products)) EXCEPT
          !.totalCount = OrZero(body.count),
          !.page = IF Falsy(body.page) THEN PageOf(opts) ELSE body.page.n,
          !.pageSize = limitedPageSize(opts),
          !.hasMore = PageOf(opts) * limitedPageSize(opts) < OrZero(body.count)]

getFoodByBarcodeResult(body) ==
  IF ~body.json THEN SyntaxError
  ELSE IF body.status # 1 \/ ~body.hasProduct THEN Returns(TRUE, << >>)
  ELSE IF ~hasValidNutrition(body.product) THEN IncompleteDataError
  ELSE Returns(FALSE, << transformProduct(body.product) >>)

FacadeResult(f, body, opts) ==
  IF f = "searchFoods" THEN searchFoodsResult(body, opts) ELSE getFoodByBarcodeResult(body)

\* The fetch of call c settles with outcome o; k is the Math.random() draw of
\* calculateBackoff, where one is made.
FetchSettles(c, o, k) ==
  /\ pc[c] = "fetching"
  /\ o \in Settlements(fn[c])
  /\ last' = [last EXCEPT ![c] = o]
  /\ IF o.type = "error"
       THEN \* catch: neither OpenFoodFactsError nor RateLimitError
            IF RetriesLeft(attempt[c])
              THEN /\ Sleep(c, "retrySleep", calculateBackoff(attempt[c], k))
                   /\ result' = result
              ELSE /\ k = 0
                   /\ Throw(c, NetworkError)
                   /\ wake' = wake
       ELSE IF o.status = 429
         THEN /\ k = 0
              /\ IF IsFinalAttempt(attempt[c])
                   THEN /\ Throw(c, RateLimitError(RetryAfterMs(o.retryAfter)))
                        /\ wake' = wake
                   ELSE /\ Sleep(c, "retrySleep", RetryAfterMs(o.retryAfter))
                        /\ result' = result
       ELSE IF ~IsOk(o.status) /\ o.status # 404
         THEN IF RetriesLeft(attempt[c]) /\ IsServerError(o.status)
                THEN /\ Sleep(c, "retrySleep", calculateBackoff(attempt[c], k))
                     /\ result' = result
                ELSE /\ k = 0
                     /\ Throw(c, HttpError(o.status))
                     /\ wake' = wake
       ELSE \* return response; the facade reads the body
            /\ k = 0
            /\ Throw(c, FacadeResult(fn[c], o.body, options[c]))
            /\ wake' = wake
  /\ UNCHANGED <<now, requests, fn, arg, attempt, fetches, aborted, via, options, dataVars, sideVars>>

\* ---------------------------------------------------------------------------
\* Public entry points
\* ---------------------------------------------------------------------------

\* Calls are numbered in the order they are made.
MayStart(c) == pc[c] = "idle" /\ \A d \in Calls : d < c => pc[d] # "idle"

\* cleanBarcode.length < 8 || cleanBarcode.length > 14
IsInvalidBarcode(cleanBarcode) == Len(cleanBarcode) < 8 \/ Len(cleanBarcode) > 14

\* Mutant of cleanBarcodeOf: the barcode is measured as typed.
cleanBarcodeOf_AsTyped(barcode) == barcode

cleanBarcodeOf(barcode) == StripNonDigits(barcode)

searchFoods(c, query, opts) ==
  /\ MayStart(c)
  /\ fn' = [fn EXCEPT ![c] = "searchFoods"]
  /\ arg' = [arg EXCEPT ![c] = query]
  /\ options' = [options EXCEPT ![c] = opts]
  /\ via' = [via EXCEPT ![c] = "facade"]
  /\ LoopHead(c, "search", 0)
  /\ UNCHANGED <<now, aborted, dataVars, sideVars>>

getFoodByBarcode(c, barcode) ==
  /\ MayStart(c)
  /\ fn' = [fn EXCEPT ![c] = "getFoodByBarcode"]
  /\ arg' = [arg EXCEPT ![c] = barcode]
  /\ IF IsInvalidBarcode(cleanBarcodeOf(barcode))
       THEN /\ Throw(c, InvalidBarcodeError)
            /\ UNCHANGED <<requests, attempt, wake, fetches, last>>
       ELSE LoopHead(c, "product", 0)
  /\ via' = [via EXCEPT ![c] = "facade"]
  /\ options' = options
  /\ UNCHANGED <<now, aborted, dataVars, sideVars>>

\* ---------------------------------------------------------------------------
\* The useFoodSearch hook (search, loadMore, clear; searchByBarcode is left
\* out).  State is read as of the latest render.
\* ---------------------------------------------------------------------------

\* Mutant of getStatus: the timestamps are not filtered by the window.
getStatus_Unfiltered(reqs, b, t) ==
  [remaining |-> Max0(maxRequests(b) - Len(reqs)),
   resetIn |-> IF Len(reqs) > 0 THEN Max0(windowMs - (t - Min(Range(reqs)))) ELSE 0]

\* getRateLimitStatus's getStatus, on the list reqs of bucket b at instant t.
getStatus(reqs, b, t) ==
  LET validRequests == FilterWindow(reqs, t) IN
  [remaining |-> Max0(maxRequests(b) - Len(validRequests)),
   resetIn |-> IF Len(validRequests) > 0
                 THEN Max0(windowMs - (t - Min(Range(validRequests))))
                 ELSE 0]

\* getRateLimitStatus(): what it returns is kept in report.
getRateLimitStatus ==
  /\ report' = [called |-> TRUE, at |-> now,
                search |-> getStatus(requests["search"], "search", now),
                product |-> getStatus(requests["product"], "product", now)]
  /\ UNCHANGED <<clientVars, dataVars, delays, hook>>

\* checkRateLimit of the hook: the value it gives to rateLimitWarning.
RateLimitWarning == getStatus(requests["search"], "search", now).remaining < 3

\* Mutant of clearTimeout: the timer is left pending.
clearTimeout_Forgets(timers, handle) == timers

\* clearTimeout(handle) on the set of pending timers; 0 is the null handle.
clearTimeout(timers, handle) == {t \in timers : t.handle # handle}

\* The message the hook shows for what searchFoods threw.
ErrorText(e, generic) ==
  IF e.name = "RateLimitError" THEN "Rate limit reached"
  ELSE IF e.name \in {"OpenFoodFactsError", "NetworkError"} THEN e.code
  ELSE generic

\* The tags of the items of one page (history).
FromPage(items, query, page) ==
  [i \in 1..Len(items) |-> [query |-> query, page |-> page]]

\* A hook's call of searchFoods(query, {page, pageSize}), up to its first
\* await.
HookCalls(c, query, page, how) ==
  /\ MayStart(c)
  /\ fn' = [fn EXCEPT ![c] = "searchFoods"]
  /\ arg' = [arg EXCEPT ![c] = query]
  /\ options' = [options EXCEPT ![c] = Options(Some(page), Some(pageSize))]
  /\ via' = [via EXCEPT ![c] = how]
  /\ LoopHead(c, "search", 0)

\* abortController.current.abort(), if there is one (0: null).
AbortCurrent ==
  aborted' = IF hook.abortController # 0
               THEN [aborted EXCEPT ![hook.abortController] = TRUE]
               ELSE aborted

\* search(query), up to the debounce timer it sets.
search(query) ==
  /\ Len(hook.typed) < MaxTyped
  /\ hook' =
       LET handle == Len(hook.typed) + 1
           reset == [hook EXCEPT
                       !.timers = clearTimeout(@, hook.debounceTimer),
                       !.currentQuery = query,
                       !.currentPage = 1,
                       !.typed = Append(@, [op |-> "search", query |-> query, at |-> now]),
                       !.loaded = 0]
       IN IF query = << >> \/ Len(query) < minQueryLength
            THEN [reset EXCEPT !.results = << >>, !.from = << >>, !.totalCount = 0,
                               !.hasMore = FALSE, !.error = "", !.isLoading = FALSE]
            ELSE [reset EXCEPT
                    !.timers = @ \cup {[handle |-> handle, query |-> query,
                                        deadline |-> now + debounceMs]},
                    !.debounceTimer = handle]
  /\ UNCHANGED <<clientVars, dataVars, delays, report>>

\* A debounce timer fires: the hook calls searchFoods(query, {page: 1, ...}).
DebounceEnds(c) ==
  \E t \in hook.timers :
    /\ now >= t.deadline
    /\ AbortCurrent
    /\ HookCalls(c, t.query, 1, "hook")
    /\ hook' = [hook EXCEPT
                  !.timers = @ \ {t},
                  !.abortController = c,
                  !.isLoading = TRUE,
                  !.error = "",
                  !.rateLimitWarning = RateLimitWarning,
                  !.awaiting = @ \cup {c},
                  !.sent = @ \cup {t.handle}]
    /\ UNCHANGED <<now, dataVars, delays, report>>

\* The searchFoods call of a debounced search has settled: the rest of the
\* timer's callback.
searchResolves(c) ==
  /\ c \in hook.awaiting /\ via[c] = "hook" /\ pc[c] = "done"
  /\ hook' =
       LET left == [hook EXCEPT !.awaiting = @ \ {c}] IN
       IF hook.currentQuery # arg[c] THEN left
       ELSE IF result[c].kind = "return"
         THEN [left EXCEPT
                 !.results = result[c].items,
                 !.from = FromPage(result[c].items, arg[c], 1),
                 !.totalCount = result[c].totalCount,
                 !.hasMore = result[c].hasMore,
                 !.isLoading = FALSE,
                 !.loaded = 1]
         ELSE [left EXCEPT
                 !.error = ErrorText(result[c], "Failed to search foods"),
                 !.rateLimitWarning = (result[c].name = "RateLimitError") \/ @,
                 !.isLoading = FALSE]
  /\ UNCHANGED <<clientVars, dataVars, delays, report>>

\* loadMore(), up to its call of searchFoods for the next page.
loadMore(c) ==
  /\ hook.hasMore /\ ~hook.isLoadingMore /\ hook.currentQuery # << >>
  /\ HookCalls(c, hook.currentQuery, hook.currentPage + 1, "loadMore")
  /\ hook' = [hook EXCEPT
                !.isLoadingMore = TRUE,
                !.error = "",
                !.rateLimitWarning = RateLimitWarning,
                !.awaiting = @ \cup {c}]
  /\ UNCHANGED <<now, aborted, dataVars, delays, report>>

\* The searchFoods call of loadMore has settled: the rest of loadMore.
loadMoreResolves(c) ==
  /\ c \in hook.awaiting /\ via[c] = "loadMore" /\ pc[c] = "done"
  /\ hook' =
       LET left == [hook EXCEPT !.awaiting = @ \ {c}, !.isLoadingMore = FALSE] IN
       IF result[c].kind = "return"
         THEN [left EXCEPT
                 !.currentPage = options[c].page.n,
                 !.results = @ \o result[c].items,
                 !.from = @ \o FromPage(result[c].items, arg[c], options[c].page.n),
                 !.hasMore = result[c].hasMore,
                 !.loaded = @ + 1]
         ELSE [left EXCEPT
                 !.error = ErrorText(result[c], "Failed to load more results"),
                 !.rateLimitWarning = (result[c].name = "RateLimitError") \/ @]
  /\ UNCHANGED <<clientVars, dataVars, delays, report>>

\* clear()
clear ==
  /\ Len(hook.typed) < MaxTyped
  /\ AbortCurrent
  /\ hook' = [hook EXCEPT
                !.timers = clearTimeout(@, hook.debounceTimer),
                !.currentQuery = << >>,
                !.currentPage = 1,
                !.results = << >>, !.from = << >>,
                !.totalCount = 0,
                !.hasMore = FALSE,
                !.isLoading = FALSE,
                !.isLoadingMore = FALSE,
                !.error = "",
                !.typed = Append(@, [op |-> "clear", query |-> << >>, at |-> now]),
                !.loaded = 0]
  /\ UNCHANGED <<now, requests, pc, fn, arg, attempt, wake, result, fetches, last, via,
                 options, dataVars, delays, report>>

\* The body of a 400 answer of the search route.
BadRequest == Err("", "", 400, 0)

\* GET /api/food/search?q=query, up to its call of searchFoods.
GET(c, query) ==
  /\ MayStart(c)
  /\ fn' = [fn EXCEPT ![c] = "searchFoods"]
  /\ arg' = [arg EXCEPT ![c] = query]
  /\ via' = [via EXCEPT ![c] = "route"]
  /\ options' = [options EXCEPT ![c] = Options(Some(1), Some(20))]
  /\ IF query = << >>
       THEN /\ Throw(c, BadRequest)
            /\ UNCHANGED <<requests, attempt, wake, fetches, last>>
       ELSE LoopHead(c, "search", 0)
  /\ UNCHANGED <<now, aborted, dataVars, sideVars>>

\* What GET answers once searchFoods has settled: 200 with the results, or
\* 500 for whatever searchFoods threw.
RouteResponse(r) ==
  IF r.kind = "throw" /\ r # BadRequest THEN Err("", "", 500, 0) ELSE r

\* The caller aborts the AbortController it holds for the call in flight
\* (useFoodSearch: clear, or the next search).  The signal is passed neither
\* to searchFoods / getFoodByBarcode nor to fetchWithRetry.
Abort(c) ==
  /\ pc[c] \in {"rateSleep", "fetching", "retrySleep"}
  /\ ~aborted[c]
  /\ aborted' = [aborted EXCEPT ![c] = TRUE]
  /\ UNCHANGED <<now, requests, pc, fn, arg, attempt, wake, result, fetches, last, via, options, dataVars, sideVars>>

\* ---------------------------------------------------------------------------
\* Time
\* ---------------------------------------------------------------------------

Sleeping == {c \in Calls : pc[c] \in {"rateSleep", "retrySleep"}}

\* The deadlines yet to come: of the calls asleep and of the debounce timers.
Deadlines ==
  {wake[c] : c \in {d \in Sleeping : wake[d] > now}}
    \cup {t.deadline : t \in {u \in hook.timers : u.deadline > now}}

\* Time passes up to the next timer deadline.
TimerAdvance ==
  /\ Deadlines # {}
  /\ now' = Min(Deadlines)
  /\ UNCHANGED <<requests, pc, fn, arg, attempt, wake, result, fetches, last, aborted, via, options, dataVars, sideVars>>

\* Time passes while calls are yet to be made or in flight.
Elapse ==
  /\ \E c \in Calls : pc[c] # "done"
  /\ \E d \in Latencies : now + d <= MaxTime /\ now' = now + d
  /\ UNCHANGED <<requests, pc, fn, arg, attempt, wake, result, fetches, last, aborted, via, options, dataVars, sideVars>>

\* ---------------------------------------------------------------------------
\* Specifications
\* ---------------------------------------------------------------------------

\* A lookup body reporting a found product with usable nutrition, and a
\* search body listing it.
FoundBody(f) ==
  LET r == CHOOSE x \in RawRecords : hasValidNutrition(x) IN
  IF f = "searchFoods" THEN Body(TRUE, 0, FALSE, NoProduct, << r >>)
  ELSE Body(TRUE, 1, TRUE, r, << >>)

\* The upstream either answers the request or is overloaded.
PlainOutcomes(f) ==
  { Response(200, NoHeader, FoundBody(f)), Response(503, NoHeader, NoBody) }

PlainBarcodes == { Rep("3", 14) }

\* Spec: NumCalls callers share the two budgets; the upstream answers with
\* 200 or 503 and time passes from timer to timer.
Next ==
  \/ \E c \in Calls, q \in Queries : searchFoods(c, q, NoOptions)
  \/ \E c \in Calls, b \in PlainBarcodes : getFoodByBarcode(c, b)
  \/ \E c \in Calls : RateLimitSleepEnds(c)
  \/ \E c \in Calls : RetrySleepEnds(c)
  \/ \E c \in Calls : \E o \in PlainOutcomes(fn[c]) : FetchSettles(c, o, 0)
  \/ TimerAdvance

Spec == Init /\ [][Next]_vars

\* SpecCall: one call, alone, against every outcome of the upstream, every
\* jitter draw, every argument, with the caller free to abort.
TheCall == CHOOSE c \in Calls : \A d \in Calls : c <= d

CallStep ==
  \/ RateLimitSleepEnds(TheCall)
  \/ RetrySleepEnds(TheCall)
  \/ \E k \in RandomDraws : \E o \in Outcomes(fn[TheCall]) : FetchSettles(TheCall, o, k)
  \/ TimerAdvance

NextCall ==
  \/ \E q \in Queries : searchFoods(TheCall, q, NoOptions)
  \/ \E b \in Barcodes : getFoodByBarcode(TheCall, b)
  \/ CallStep
  \/ Abort(TheCall)
  \/ Elapse

SpecCall == Init /\ [][NextCall]_vars

\* FairSpecRetry: one call against every status, header and jitter draw of
\* the upstream (the body plays no part in the retry loop), under the
\* scheduling the event loop gives: timers expire, sleepers are resumed and
\* every fetch settles.
RetryOutcomes(f) == OutcomesOver({FoundBody(f)})

RetryStep ==
  \/ RateLimitSleepEnds(TheCall)
  \/ RetrySleepEnds(TheCall)
  \/ \E k \in RandomDraws : \E o \in RetryOutcomes(fn[TheCall]) : FetchSettles(TheCall, o, k)
  \/ TimerAdvance

NextRetry ==
  \/ \E q \in Queries : searchFoods(TheCall, q, NoOptions)
  \/ \E b \in Barcodes : getFoodByBarcode(TheCall, b)
  \/ RetryStep

FairSpecRetry == Init /\ [][NextRetry]_vars /\ WF_vars(RetryStep)

\* The nutrition functions, applied to the items at hand.

\* While the application holds no item, transformProduct is applied to a
\* record; the application holds the item if the record passed
\* hasValidNutrition, as the facades require.
Normalize(r) ==
  /\ held = NoItem
  /\ calc' = [op |-> "transformProduct", product |-> r,
              valid |-> hasValidNutrition(r), out |-> transformProduct(r)]
  /\ held' = IF hasValidNutrition(r) THEN transformProduct(r) ELSE held
  /\ original' = IF hasValidNutrition(r) THEN transformProduct(r) ELSE original
  /\ UNCHANGED <<clientVars, sideVars>>

\* The application holds an item that did not come from the normalizer.
HoldManual(i) ==
  /\ held = NoItem
  /\ held' = i
  /\ original' = i
  /\ calc' = NoCalc
  /\ UNCHANGED <<clientVars, sideVars>>

\* held = recalculateServing(held, g)
Rescale(g) ==
  /\ held # NoItem
  /\ calc' = [op |-> "recalculateServing", food |-> held, arg |-> g,
              out |-> recalculateServing(held, g)]
  /\ held' = recalculateServing(held, g)
  /\ UNCHANGED <<original, clientVars, sideVars>>

\* calculateTotalNutrition(held, n)
Totals(n) ==
  /\ held # NoItem
  /\ calc' = [op |-> "calculateTotalNutrition", food |-> held, arg |-> n,
              out |-> calculateTotalNutrition(held, n)]
  /\ UNCHANGED <<held, original, clientVars, sideVars>>

NextNutrition ==
  \/ \E r \in NutritionRecords : Normalize(r)
  \/ \E i \in ManualItems : HoldManual(i)
  \/ \E g \in Grams : Rescale(g)
  \/ \E n \in ServingCounts : Totals(n)

SpecNutrition == Init /\ [][NextNutrition]_vars

\* SpecBackoff: calculateBackoff applied to the attempts 0, 1, ... in turn,
\* each with its own jitter draw.
Backoff(k) ==
  /\ Len(delays) <= MaxAttempt
  /\ delays' = Append(delays, calculateBackoff(Len(delays), k))
  /\ UNCHANGED <<clientVars, dataVars, report, hook>>

NextBackoff == \E k \in RandomDraws : Backoff(k)

SpecBackoff == Init /\ [][NextBackoff]_vars

\* SpecPaging: one search with options, against answers that carry count
\* and page.
NextPaging ==
  \/ \E q \in Queries, opts \in SearchOptions : searchFoods(TheCall, q, opts)
  \/ \E o \in PagedOutcomes : FetchSettles(TheCall, o, 0)
  \/ RetrySleepEnds(TheCall)
  \/ TimerAdvance

SpecPaging == Init /\ [][NextPaging]_vars

\* SpecStatus: one call of either function, the upstream answering or
\* overloaded, and getRateLimitStatus called at any moment; once the call is
\* over a whole window may pass.
IdleWindow ==
  /\ \A c \in Calls : pc[c] \in {"idle", "done"}
  /\ now <= MaxTime + windowMs
  /\ now' = now + windowMs
  /\ UNCHANGED <<requests, pc, fn, arg, attempt, wake, result, fetches, last, aborted, via,
                 options, dataVars, sideVars>>

NextStatus ==
  \/ \E q \in Queries : searchFoods(TheCall, q, NoOptions)
  \/ \E b \in PlainBarcodes : getFoodByBarcode(TheCall, b)
  \/ \E o \in PlainOutcomes(fn[TheCall]) : FetchSettles(TheCall, o, 0)
  \/ RateLimitSleepEnds(TheCall)
  \/ RetrySleepEnds(TheCall)
  \/ TimerAdvance
  \/ IdleWindow
  \/ getRateLimitStatus

SpecStatus == Init /\ [][NextStatus]_vars

\* SpecHook: one useFoodSearch hook whose search, loadMore and clear are
\* called in any order and at any pace, its calls of searchFoods answered
\* (with one item and more to come) or refused, in any order.
HookQueries == Queries \cup { <<"o", "a", "t">>, <<"a">> }

HookOutcomes ==
  { Response(200, NoHeader,
             Paged(Body(TRUE, 0, FALSE, NoProduct,
                        << CHOOSE x \in RawRecords : hasValidNutrition(x) >>),
                   Some(21), None)),
    Response(400, NoHeader, NoBody) }

\* Time that passes between two calls made in a burst, while a debounce
\* timer is pending.
TypingGaps == {100}

Pause ==
  /\ \E d \in TypingGaps :
       /\ \E t \in hook.timers : now + d <= t.deadline
       /\ now' = now + d
  /\ UNCHANGED <<requests, pc, fn, arg, attempt, wake, result, fetches, last, aborted, via,
                 options, dataVars, sideVars>>

NextHook ==
  \/ \E q \in HookQueries : search(q)
  \/ clear
  \/ \E c \in Calls : DebounceEnds(c)
  \/ \E c \in Calls : loadMore(c)
  \/ \E c \in Calls : \E o \in HookOutcomes : FetchSettles(c, o, 0)
  \/ \E c \in Calls : searchResolves(c)
  \/ \E c \in Calls : loadMoreResolves(c)
  \/ TimerAdvance
  \/ Pause

SpecHook == Init /\ [][NextHook]_vars

\* SpecEntry: one search, of any length of query, entering through the
\* facade, the hook or the route.
NextEntry ==
  \/ \E q \in Queries \cup ShortQueries :
       hook.typed = << >> /\ searchFoods(TheCall, q, NoOptions)
  \/ \E q \in Queries \cup ShortQueries :
       hook.typed = << >> /\ pc[TheCall] = "idle" /\ search(q)
  \/ \E q \in Queries \cup ShortQueries :
       hook.typed = << >> /\ GET(TheCall, q)
  \/ DebounceEnds(TheCall)
  \/ searchResolves(TheCall)
  \/ RetryStep

SpecEntry == Init /\ [][NextEntry]_vars

\* ---------------------------------------------------------------------------
\* Properties
\* ---------------------------------------------------------------------------

\* Number of timestamps within the trailing window: of a list at instant t,
\* and of budget b now.
CountInWindow(reqs, t) ==
  Cardinality({i \in 1..Len(reqs) : t - reqs[i] < windowMs})

InWindow(b) == CountInWindow(requests[b], now)

Done(c) == pc[c] = "done"

\* C1: at every instant, and for every interleaving of concurrent calls, each
\* budget holds at most its maximum number of timestamps within the trailing
\* window.
C1_WindowNeverExceedsMax ==
  \A b \in BucketKeys : InWindow(b) <= maxRequests(b)

\* The step is call c's fetch settling.
Settles(c) == pc[c] = "fetching" /\ pc'[c] # "fetching"

\* The outcome just met is a failure the retry loop retries.
IsRetryable(o) ==
  \/ o.type = "error"
  \/ o.type = "response" /\ (o.status = 429 \/ o.status \in 500..599)

\* The outcome just met is a response fetchWithRetry returns (2xx or 404).
IsPassedThrough(o) ==
  o.type = "response" /\ (o.status \in 200..299 \/ o.status = 404)

\* C2: every call ends (returns or throws), after at most maxRetries + 1 = 4
\* invocations of the upstream, whatever the upstream answers and whatever
\* the budget holds.
C2_TerminatesWithinFourFetches ==
  /\ [](\A c \in Calls : fetches[c] <= 4 /\ attempt[c] <= maxRetries)
  /\ \A c \in Calls : (pc[c] # "idle") ~> Done(c)

\* A call has ended after exhausting its four invocations.
C2_Witness ==
  \E c \in Calls : Done(c) /\ fetches[c] = 4 /\ result[c].name = "NetworkError"

\* Oldest timestamp of the list reqs still within the window at instant t.
OldestIn(reqs, t) ==
  Min({reqs[i] : i \in {j \in 1..Len(reqs) : t - reqs[j] < windowMs}})

budgetOf(f) == IF f = "searchFoods" THEN "search" ELSE "product"

C4_TransientErrorsOnlyFromFinalAttempt ==
  [][\A c \in Calls :
       /\ (Done(c)' /\ ( \/ result'[c].name \in {"RateLimitError", "NetworkError"}
                         \/ result'[c].code = "HTTP_ERROR" /\ result'[c].statusCode >= 500))
            => attempt'[c] = maxRetries
       /\ (Settles(c) /\ IsRetryable(last'[c]) /\ attempt[c] < maxRetries)
            => pc'[c] = "retrySleep" /\ wake'[c] >= now /\ fetches'[c] = fetches[c]
       /\ (pc[c] = "retrySleep" /\ pc'[c] # "retrySleep")
            => /\ now >= wake[c]
               /\ attempt'[c] = attempt[c] + 1
               /\ \/ pc'[c] = "fetching" /\ fetches'[c] = fetches[c] + 1
                  \/ last'[c] = Limited
       /\ (Settles(c) /\ IsPassedThrough(last'[c]))
            => /\ Done(c)'
               /\ result'[c].name \notin {"RateLimitError", "NetworkError"}
               /\ result'[c].code # "HTTP_ERROR"
    ]_vars

\* A call has returned a value from its last attempt, after three retried
\* failures.
C4_Witness ==
  \E c \in Calls :
    /\ Done(c) /\ result[c].kind = "return"
    /\ attempt[c] = maxRetries /\ fetches[c] = 4

\* C5: a 4xx answer other than 429 and 404 ends the call at once, at any
\* attempt, with an HTTP error carrying that status (not a NetworkError): no
\* sleep, no further invocation, and nothing changes for the call afterwards.
C5_ClientErrorFailsImmediately ==
  [][\A c \in Calls :
       /\ (Settles(c) /\ last'[c].type = "response"
             /\ last'[c].status \in (400..499) \ {404, 429})
            => /\ Done(c)'
               /\ result'[c].kind = "throw"
               /\ result'[c].name = "OpenFoodFactsError"
               /\ result'[c].code = "HTTP_ERROR"
               /\ result'[c].statusCode = last'[c].status
               /\ wake'[c] = wake[c]
               /\ fetches'[c] = fetches[c]
               /\ attempt'[c] = attempt[c]
       /\ Done(c) =>
            /\ pc'[c] = pc[c] /\ result'[c] = result[c] /\ fetches'[c] = fetches[c]
            /\ wake'[c] = wake[c] /\ attempt'[c] = attempt[c]
    ]_vars

\* A 4xx has ended a call on a retry, i.e. after an earlier retried failure.
C5_Witness ==
  \E c \in Calls :
    /\ Done(c) /\ result[c].code = "HTTP_ERROR" /\ result[c].statusCode = 403
    /\ attempt[c] > 0 /\ fetches[c] = attempt[c] + 1

\* C6: when the upstream reports not-found for a lookup (HTTP 404, or a JSON
\* body whose status is not 1 or that has no product), getFoodByBarcode
\* returns null and raises no error.
C6_NotFoundReturnsNull ==
  \A c \in Calls :
    ( /\ Done(c) /\ fn[c] = "getFoodByBarcode"
      /\ IsPassedThrough(last[c])
      /\ \/ last[c].status = 404
         \/ last[c].body.json /\ (last[c].body.status # 1 \/ ~last[c].body.hasProduct) )
    => result[c] = Returns(TRUE, << >>)

\* The delay a 429 asks for, per Retry-After header of the model.
ExpectedRetryAfterMs(h) ==
  CASE h = NoHeader -> 60000
    [] h = <<"0">> -> 0
    [] h = <<"1", "2">> -> 12000

\* C7: on a 429 the delay is the Retry-After seconds times 1000 ms, or
\* 60000 ms without the header; on a non-final attempt the call sleeps that
\* long and then makes the next attempt, on the final attempt it throws
\* RateLimitError with retryAfterMs equal to the delay.
C7_Http429Delay ==
  [][\A c \in Calls :
       /\ (Settles(c) /\ last'[c].type = "response" /\ last'[c].status = 429) =>
            IF attempt[c] = maxRetries
              THEN /\ Done(c)'
                   /\ result'[c].kind = "throw"
                   /\ result'[c].name = "RateLimitError"
                   /\ result'[c].code = "RATE_LIMIT_EXCEEDED"
                   /\ result'[c].retryAfterMs = ExpectedRetryAfterMs(last'[c].retryAfter)
              ELSE /\ pc'[c] = "retrySleep"
                   /\ wake'[c] = now + ExpectedRetryAfterMs(last'[c].retryAfter)
                   /\ result'[c] = result[c]
       /\ (pc[c] = "retrySleep" /\ pc'[c] # "retrySleep") =>
            now >= wake[c] /\ attempt'[c] = attempt[c] + 1
    ]_vars

\* A fourth 429, with Retry-After: 12, has ended a call.
C7_Witness ==
  \E c \in Calls :
    /\ Done(c) /\ result[c].name = "RateLimitError" /\ result[c].retryAfterMs = 12000
    /\ last[c].status = 429 /\ fetches[c] = 4

\* C8: once the caller has cancelled, the call in flight makes no further
\* upstream attempt, records no further timestamp, and ends with a
\* cancellation error.
C8_CancelStopsTheCall ==
  [][\A c \in Calls :
       aborted[c] =>
         /\ fetches'[c] = fetches[c]
         /\ requests' = requests
         /\ (~Done(c) /\ Done(c)') => result'[c].name = "AbortError"
    ]_vars

\* Number of digit characters of a string.
DigitCount(str) == Cardinality({i \in 1..Len(str) : str[i] \in Digits})

\* C9: getFoodByBarcode throws INVALID_BARCODE exactly when the barcode has
\* fewer than 8 or more than 14 digits once the non-digits are stripped, and
\* then invokes nothing and records nothing in either budget; with 8 to 14
\* digits the call goes to transport on the product budget.
C9_BarcodeFormat ==
  [][\A c \in Calls :
       /\ (pc[c] = "idle" /\ pc'[c] # "idle" /\ fn'[c] = "getFoodByBarcode") =>
            IF DigitCount(arg'[c]) < 8 \/ DigitCount(arg'[c]) > 14
              THEN /\ Done(c)'
                   /\ result'[c].kind = "throw"
                   /\ result'[c].code = "INVALID_BARCODE"
                   /\ fetches'[c] = 0
                   /\ requests' = requests
              ELSE /\ result'[c].code # "INVALID_BARCODE"
                   /\ requests'["search"] = requests["search"]
                   /\ \/ /\ pc'[c] = "fetching"
                         /\ fetches'[c] = 1
                         /\ Len(requests'["product"]) > 0
                         /\ requests'["product"][Len(requests'["product"])] = now
                      \/ /\ last'[c] = Limited
                         /\ requests'["product"] = FilterWindow(requests["product"], now)
       /\ (Done(c)' /\ result'[c].code = "INVALID_BARCODE") =>
            /\ fn'[c] = "getFoodByBarcode"
            /\ DigitCount(arg'[c]) < 8 \/ DigitCount(arg'[c]) > 14
            /\ fetches'[c] = 0
    ]_vars

\* A barcode of nine characters, seven of them digits, has been rejected.
C9_Witness ==
  \E c \in Calls :
    /\ Done(c) /\ result[c].code = "INVALID_BARCODE"
    /\ Len(arg[c]) >= 8 /\ DigitCount(arg[c]) < 8
    /\ requests = [b \in BucketKeys |-> << >>]

\* The validation rule, stated on the raw record.
PassesValidation(r) ==
  /\ r.nutriments.present
  /\ r.nutriments.keys \cap {"energy-kcal_100g", "energy_100g", "energy-kcal"} # {}
  /\ {r.product_name, r.product_name_en, r.generic_name} # {""}

\* Positions of the product list whose record passes validation.
ValidPositions(products) ==
  {i \in 1..Len(products) : PassesValidation(products[i])}

\* C10: the items searchFoods returns are exactly, in order, those of the
\* records of the response that pass validation (a failing record is never
\* among them); a lookup that finds a record failing validation throws
\* INCOMPLETE_DATA at once, one that finds a passing record returns its item;
\* no response that was passed through is retried.
C10_OnlyValidatedRecordsSurface ==
  \A c \in Calls :
    /\ (Done(c) /\ fn[c] = "searchFoods" /\ result[c].kind = "return") =>
         /\ IsPassedThrough(last[c]) /\ last[c].body.json
         /\ Len(result[c].items) = Cardinality(ValidPositions(last[c].body.products))
         /\ \A i \in 1..Len(result[c].items) :
              \E j \in ValidPositions(last[c].body.products) :
                /\ result[c].items[i].sourceId = last[c].body.products[j].code
                /\ Cardinality({k \in ValidPositions(last[c].body.products) : k <= j}) = i
    /\ (Done(c) /\ fn[c] = "getFoodByBarcode" /\ IsPassedThrough(last[c])
          /\ last[c].body.json /\ last[c].body.status = 1 /\ last[c].body.hasProduct) =>
         IF PassesValidation(last[c].body.product)
           THEN /\ result[c].kind = "return" /\ ~result[c].null
                /\ Len(result[c].items) = 1
                /\ result[c].items[1].sourceId = last[c].body.product.code
           ELSE /\ result[c].kind = "throw" /\ result[c].code = "INCOMPLETE_DATA"
    /\ (Done(c) /\ fn[c] = "getFoodByBarcode" /\ result[c].kind = "return" /\ ~result[c].null) =>
         /\ IsPassedThrough(last[c]) /\ last[c].body.json
         /\ PassesValidation(last[c].body.product)
    /\ IsPassedThrough(last[c]) => Done(c)

\* A search has returned one item out of a response listing a failing record
\* and a passing one, and nothing but that item.
C10_Witness ==
  \E c \in Calls :
    /\ Done(c) /\ fn[c] = "searchFoods" /\ result[c].kind = "return"
    /\ Len(last[c].body.products) = 2
    /\ ~PassesValidation(last[c].body.products[1])
    /\ PassesValidation(last[c].body.products[2])
    /\ Len(result[c].items) = 1

\* C11: a search whose query has fewer than minQueryLength = 2 characters,
\* through the facade, the hook or the route, ends at once with an empty
\* result: no fetch, no timestamp in either budget.
C11_ShortQueryShortCircuits ==
  [][\A c \in Calls :
       (pc[c] = "idle" /\ pc'[c] # "idle" /\ fn'[c] = "searchFoods"
          /\ Len(arg'[c]) < minQueryLength) =>
         /\ Done(c)'
         /\ result'[c] = Returns(FALSE, << >>)
         /\ fetches'[c] = 0
         /\ requests' = requests
    ]_vars

\* C12: recalculateServing is idempotent at a fixed gram value: applied again
\* to its own result with the same gram value it returns that result, field
\* by field.
C12_RecalculateIdempotent ==
  calc.op = "recalculateServing" =>
    recalculateServing(calc.out, calc.arg) = calc.out

\* An item has been rescaled to 30 g, which changed it.
C12_Witness ==
  /\ calc.op = "recalculateServing" /\ calc.arg = 300
  /\ calc.out # calc.food /\ calc.out.calories > 0

\* The items the normalizer makes of the records that pass validation.
NormalizedItems ==
  {transformProduct(r) : r \in {x \in NutritionRecords : hasValidNutrition(x)}}

C14_UnchangedExactlyWhenNoBaseline ==
  calc.op = "recalculateServing" =>
    IF ~calc.food.caloriesPer100g.def
      THEN calc.out = calc.food
      ELSE /\ calc.out.servingQuantity = Some(calc.arg)
           /\ calc.out.servingSize = NumberToString(calc.arg) \o <<"g">>

\* C15: recalculateServing leaves name, brand, source, id, sourceId and the
\* four per-100g baselines as they are in the item it is given, and the item
\* the application held is the one it was given.
C15_RecalculateFrame ==
  [][calc'.op = "recalculateServing" /\ calc' # calc =>
       /\ calc'.food = held
       /\ calc'.out.name = held.name
       /\ calc'.out.brand = held.brand
       /\ calc'.out.source = held.source
       /\ calc'.out.id = held.id
       /\ calc'.out.sourceId = held.sourceId
       /\ calc'.out.caloriesPer100g = held.caloriesPer100g
       /\ calc'.out.proteinPer100g = held.proteinPer100g
       /\ calc'.out.carbsPer100g = held.carbsPer100g
       /\ calc'.out.fatPer100g = held.fatPer100g
       /\ original' = original
    ]_vars

\* A branded item has been rescaled, which changed its serving and calories.
C15_Witness ==
  /\ calc.op = "recalculateServing"
  /\ calc.food.brand # << >> /\ calc.food.sourceId # ""
  /\ calc.out.servingQuantity # calc.food.servingQuantity
  /\ calc.out.calories # calc.food.calories
  /\ calc.out.brand = calc.food.brand

\* C16: for a positive gram quantity g the per-serving values of an item
\* made by the normalizer or by recalculateServing are perHundred * g / 100,
\* calories rounded to a whole number and protein, carbs and fat to one
\* decimal.
C16_PerServingRounding ==
  (held # NoItem /\ original \in NormalizedItems
     /\ ~Falsy(held.caloriesPer100g) /\ held.servingQuantity.n > 0) =>
    /\ held.calories % 10 = 0
    /\ held.calories = 10 * RoundDiv(held.caloriesPer100g.n * held.servingQuantity.n, 10000)
    /\ held.protein = RoundDiv(OrZero(held.proteinPer100g) * held.servingQuantity.n, 1000)
    /\ held.carbs = RoundDiv(OrZero(held.carbsPer100g) * held.servingQuantity.n, 1000)
    /\ held.fat = RoundDiv(OrZero(held.fatPer100g) * held.servingQuantity.n, 1000)

\* C17: calculateTotalNutrition(item, n) gives calories equal to the item's
\* per-serving calories times n rounded to a whole number (a half going up)
\* and protein, carbs and fat equal to the per-serving value times n rounded
\* to one decimal; the result depends on nothing but the four per-serving
\* values and n, and the item is left as it is.
C17_TotalsFromPerServing ==
  [][calc'.op = "calculateTotalNutrition" /\ calc' # calc =>
       LET food == calc'.food
           n == calc'.arg
           out == calc'.out
       IN /\ food = held /\ held' = held
          /\ out.calories % 10 = 0
          /\ 10 * out.calories - food.calories * n > 0 - 50
          /\ 10 * out.calories - food.calories * n <= 50
          /\ \A f \in {"protein", "carbs", "fat"} :
                /\ 10 * out[f] - food[f] * n > 0 - 5
                /\ 10 * out[f] - food[f] * n <= 5
          /\ out = calculateTotalNutrition(
                     [food EXCEPT !.caloriesPer100g = None, !.proteinPer100g = None,
                                  !.carbsPer100g = None, !.fatPer100g = None,
                                  !.servingQuantity = None], n)
          /\ (food.calories = 1000 /\ food.protein = 100 /\ food.carbs = 200
                /\ food.fat = 50 /\ n = 25) =>
               out = [calories |-> 2500, protein |-> 250, carbs |-> 500, fat |-> 125]
    ]_vars

\* The totals of {100, 10, 20, 5} at 2.5 servings have been computed.
C17_Witness ==
  /\ calc.op = "calculateTotalNutrition" /\ calc.arg = 25
  /\ calc.food.calories = 1000 /\ calc.food.fat = 50
  /\ calc.out.calories = 2500 /\ calc.out.fat = 125

\* The record's energy is resolved from the generic field: nutriments are
\* present and none of the three fields tried first is.
ResolvesGenericEnergy(r) ==
  /\ r.nutriments.present
  /\ r.nutriments.keys \cap {"energy-kcal_100g", "energy_100g", "energy-kcal"} = {}
  /\ "energy" \in r.nutriments.keys

\* C18: when the generic energy field is the one resolved, a value above 400
\* is taken as kJ: the calories are the whole number nearest to value / 4.184
\* (1850 gives 442); a value of 400 or less is taken as kcal: the calories
\* are the whole number nearest to it, the value itself if it is whole (95
\* gives 95).
C18_GenericEnergyHeuristic ==
  (calc.op = "transformProduct" /\ ResolvesGenericEnergy(calc.product)) =>
    LET e == calc.product.nutriments.val["energy"]
        kcal == calc.out.caloriesPer100g.n
    IN /\ calc.out.caloriesPer100g.def
       /\ kcal % 10 = 0
       /\ IF e > 40000
            THEN /\ 2 * (4184 * kcal - 100 * e) <= 41840
                 /\ 2 * (100 * e - 4184 * kcal) <= 41840
            ELSE /\ 2 * (10 * kcal - e) <= 100
                 /\ 2 * (e - 10 * kcal) <= 100
       /\ e = 185000 => kcal = 4420
       /\ e = 9500 => kcal = 950

\* The generic field 1850 has been resolved to 442 kcal.
C18_Witness ==
  /\ calc.op = "transformProduct" /\ ResolvesGenericEnergy(calc.product)
  /\ calc.product.nutriments.val["energy"] = 185000
  /\ calc.out.caloriesPer100g = Some(4420)

\* C19: every item made by the normalizer or by recalculateServing has
\* non-negative calories, protein, carbs and fat.
C19_NutrientsNonNegative ==
  (held # NoItem /\ original \in NormalizedItems) =>
    held.calories >= 0 /\ held.protein >= 0 /\ held.carbs >= 0 /\ held.fat >= 0

\* C20: every item made by the normalizer or by recalculateServing that has
\* caloriesPer100g has a servingQuantity, and it is greater than 0.
C20_ServingQuantityPositive ==
  (held # NoItem /\ original \in NormalizedItems /\ held.caloriesPer100g.def) =>
    held.servingQuantity.def /\ held.servingQuantity.n > 0

\* The name fields of a raw record in the order of preference, and the first
\* of them that is not empty ("" if all are).
NameFields(r) ==
  << r.product_name, r.product_name_en, r.product_name_fr, r.product_name_de,
     r.generic_name >>

FirstNonEmptyName(r) ==
  LET filled == {i \in 1..5 : NameFields(r)[i] # ""}
  IN IF filled = {} THEN "" ELSE NameFields(r)[Min(filled)]

\* The raw records of the response a call's result was read from.
RecordsRead(c) ==
  IF fn[c] = "searchFoods" THEN Range(last[c].body.products)
  ELSE { last[c].body.product }

\* C21: every item returned by searchFoods or getFoodByBarcode has a name
\* that is not empty, is the first non-empty one of product_name,
\* product_name_en, product_name_fr, product_name_de, generic_name of its raw
\* record, and is not the placeholder 'Unknown Product'.
C21_NameIsFirstNonEmptyField ==
  \A c \in Calls :
    (Done(c) /\ result[c].kind = "return") =>
      \A i \in 1..Len(result[c].items) :
        /\ result[c].items[i].name # ""
        /\ result[c].items[i].name # "Unknown Product"
        /\ \E r \in RecordsRead(c) :
             /\ r.code = result[c].items[i].sourceId
             /\ result[c].items[i].name = FirstNonEmptyName(r)

\* A call has returned an item named by product_name_de, of a record that
\* passed validation by its generic name.
C21_Witness ==
  \E c \in Calls :
    /\ Done(c) /\ result[c].kind = "return" /\ Len(result[c].items) >= 1
    /\ \E r \in RecordsRead(c) :
         /\ r.code = result[c].items[1].sourceId
         /\ r.product_name = "" /\ r.product_name_de # "" /\ r.generic_name # ""
         /\ result[c].items[1].name = r.product_name_de

\* C22: for every attempt index and every jitter draw, calculateBackoff is at
\* least min(1000 * 2^i, 10000) ms, is never negative and exceeds that capped
\* delay by at most a quarter of it; the delay of attempt i + 1 is at least
\* the delay of attempt i whenever 1000 * 2^(i + 1) does not exceed 10000.
C22_BackoffBoundsAndMonotone ==
  \A n \in 1..Len(delays) :
    LET i == n - 1
        capped == Min({1000 * Pow2(i), 10000})
    IN /\ delays[n] >= capped
       /\ delays[n] >= 0
       /\ 4 * (delays[n] - capped) <= capped
       /\ (n < Len(delays) /\ 1000 * Pow2(i + 1) <= 10000) => delays[n + 1] >= delays[n]

\* The delays of the attempts 0 to 4 have been drawn, with jitter at the
\* attempts 0 and 3 and without at the attempts 1 and 4.
C22_Witness ==
  /\ Len(delays) >= 5
  /\ delays[1] > 1000
  /\ delays[2] = 2000
  /\ delays[4] > 8000
  /\ delays[5] = 10000

\* C23: searchFoods(query, {page, pageSize}) returns pageSize = min(requested
\* pageSize, 50); page = the requested page when the upstream echoes or omits
\* it; totalCount = the upstream count, 0 when absent; hasMore true exactly
\* when page * returned pageSize < totalCount.
C23_PagingFields ==
  \A c \in Calls :
    (Done(c) /\ fn[c] = "searchFoods" /\ via[c] = "facade" /\ result[c].kind = "return"
       /\ options[c].page.def /\ options[c].pageSize.def) =>
      LET asked == options[c]
          data == last[c].body
      IN /\ result[c].pageSize = Min({asked.pageSize.n, 50})
         /\ (data.page = None \/ data.page = asked.page) => result[c].page = asked.page.n
         /\ result[c].totalCount = (IF data.count.def THEN data.count.n ELSE 0)
         /\ result[c].hasMore <=> (asked.page.n * result[c].pageSize < result[c].totalCount)

\* A search asking for 100 per page has returned pageSize 50, page 1 (the
\* upstream gave none), totalCount 51 and hasMore.
C23_Witness ==
  \E c \in Calls :
    /\ Done(c) /\ result[c].kind = "return"
    /\ options[c] = Options(Some(1), Some(100))
    /\ last[c].body.page = None /\ last[c].body.count = Some(51)
    /\ result[c].pageSize = 50 /\ result[c].page = 1
    /\ result[c].totalCount = 51 /\ result[c].hasMore

\* C24: getRateLimitStatus modifies neither budget; for each budget it
\* reports remaining = max(0, maximum - number of timestamps within the
\* trailing window), so 0 <= remaining <= maximum, and remaining > 0 exactly
\* when the limiter would allow a new call on the budget at that instant;
\* resetIn is 0 when no timestamp lies in the window.
C24_StatusReportsRemaining ==
  [][report' # report =>
       /\ requests' = requests
       /\ \A b \in BucketKeys :
            LET reported == IF b = "search" THEN report'.search ELSE report'.product
                inWindow == CountInWindow(requests[b], now)
            IN /\ reported.remaining = Max0(maxRequests(b) - inWindow)
               /\ reported.remaining >= 0 /\ reported.remaining <= maxRequests(b)
               /\ reported.remaining > 0 <=> checkRateLimit(FilterWindow(requests[b], now), b)
               /\ inWindow = 0 => reported.resetIn = 0
    ]_vars

\* A report made when the product budget holds its maximum number of
\* timestamps, all of them older than the window, and the search budget none:
\* both budgets remain whole.
C24_Witness ==
  /\ report.called /\ report.at = now
  /\ Len(requests["product"]) = ProductMaxRequests
  /\ report.product.remaining = ProductMaxRequests
  /\ report.product.resetIn = 0
  /\ report.search.remaining = SearchMaxRequests

\* C25: every fetch a call makes, the first and each retry, comes with
\* exactly one timestamp, of that instant, appended to the budget of the
\* function called, the other budget being left as it is; and no timestamp
\* is appended to a budget without a fetch (the budget's list is otherwise
\* left as it is or loses its expired entries).
C25_OneTimestampPerFetch ==
  [][/\ \A c \in Calls :
          fetches'[c] # fetches[c] =>
            LET own == budgetOf(fn'[c])
                n == Len(requests'[own])
            IN /\ fetches'[c] = fetches[c] + 1
               /\ n >= 1
               /\ requests'[own][n] = now
               /\ SubSeq(requests'[own], 1, n - 1)
                    \in {requests[own], FilterWindow(requests[own], now)}
               /\ \A b \in BucketKeys \ {own} : requests'[b] = requests[b]
     /\ (\A c \in Calls : fetches'[c] = fetches[c]) =>
          \A b \in BucketKeys :
            requests'[b] \in {requests[b], FilterWindow(requests[b], now)}
    ]_vars

\* A lookup has made three fetches, the last answered 404: the product
\* budget holds three timestamps and the search budget none.
C25_Witness ==
  \E c \in Calls :
    /\ Done(c) /\ fn[c] = "getFoodByBarcode"
    /\ fetches[c] = 3 /\ last[c].status = 404
    /\ Len(requests["product"]) = 3
    /\ requests["search"] = << >>

\* The upstream number a per-100g nutrient is read from, in hundredths, and
\* the upstream energy with its unit.
RawNutrient(r, nutrientName) ==
  LET n == r.nutriments IN
  IF SuffixedKey(nutrientName, TRUE) \in n.keys THEN n.val[SuffixedKey(nutrientName, TRUE)]
  ELSE IF nutrientName \in n.keys THEN n.val[nutrientName]
  ELSE 0

RawEnergy(r) ==
  LET n == r.nutriments IN
  IF "energy-kcal_100g" \in n.keys THEN [value |-> n.val["energy-kcal_100g"], kJ |-> FALSE]
  ELSE IF "energy_100g" \in n.keys THEN [value |-> n.val["energy_100g"], kJ |-> TRUE]
  ELSE [value |-> n.val["energy-kcal"], kJ |-> FALSE]

\* The per-serving value, in tenths, that one rounding of raw * grams / 100
\* gives (raw in hundredths, grams in tenths; kJ are divided by 4.184).
RoundedOnce(raw, grams, kJ) ==
  IF kJ THEN RoundDiv(raw * grams, 41840) ELSE RoundDiv(raw * grams, 10000)

\* The same, rounded to a whole number.
RoundedOnceWhole(raw, grams, kJ) ==
  IF kJ THEN 10 * RoundDiv(raw * grams, 418400) ELSE 10 * RoundDiv(raw * grams, 100000)

\* C26: each per-100g value of a normalized item is one rounding of the
\* upstream number, and each per-serving value is one rounding (to the
\* normalizer's one decimal; for calories, to one decimal or to a whole
\* number) of rawPer100g * servingQuantity / 100 computed from the upstream
\* number, not from the rounded per-100g value.
C26_SingleRounding ==
  (calc.op = "transformProduct" /\ calc.valid /\ calc.out.servingQuantity.n > 0) =>
    LET r == calc.product
        item == calc.out
        grams == item.servingQuantity.n
    IN /\ item.caloriesPer100g.n =
            (IF RawEnergy(r).kJ THEN 10 * RoundDiv(10 * RawEnergy(r).value, 4184)
             ELSE 10 * RoundDiv(RawEnergy(r).value, 100))
       /\ item.proteinPer100g.n = RoundDiv(RawNutrient(r, "proteins"), 10)
       /\ item.carbsPer100g.n = RoundDiv(RawNutrient(r, "carbohydrates"), 10)
       /\ item.fatPer100g.n = RoundDiv(RawNutrient(r, "fat"), 10)
       /\ item.calories \in { RoundedOnce(RawEnergy(r).value, grams, RawEnergy(r).kJ),
                             RoundedOnceWhole(RawEnergy(r).value, grams, RawEnergy(r).kJ) }
       /\ item.protein = RoundedOnce(RawNutrient(r, "proteins"), grams, FALSE)
       /\ item.carbs = RoundedOnce(RawNutrient(r, "carbohydrates"), grams, FALSE)
       /\ item.fat = RoundedOnce(RawNutrient(r, "fat"), grams, FALSE)

\* C27: when the raw record has no serving_quantity and its serving_size
\* label, absent or not, gives no gram or millilitre value, the normalized
\* item's per-serving calories, protein, carbs and fat equal its per-100g
\* values and its servingSize is '100g'.
C27_UnknownServingIsHundredGrams ==
  (calc.op = "transformProduct" /\ calc.valid
     /\ calc.product.serving_quantity = None
     /\ ~parseServingQuantity(calc.product.serving_size).def) =>
    /\ calc.out.calories = calc.out.caloriesPer100g.n
    /\ calc.out.protein = calc.out.proteinPer100g.n
    /\ calc.out.carbs = calc.out.carbsPer100g.n
    /\ calc.out.fat = calc.out.fatPer100g.n
    /\ calc.out.servingSize = <<"1", "0", "0", "g">>

\* The record's only energy figure is the generic field.
OnlyGenericEnergy(r) ==
  /\ r.nutriments.present
  /\ "energy" \in r.nutriments.keys
  /\ r.nutriments.keys \cap {"energy-kcal_100g", "energy_100g", "energy-kcal"} = {}

\* C30: no item returned by searchFoods or getFoodByBarcode has its calories
\* derived from the generic energy field: the record of every returned item
\* has one of energy-kcal_100g, energy_100g, energy-kcal, and the item's
\* caloriesPer100g is the rounding of the first of them, whatever the generic
\* field holds; a record whose only energy figure is the generic field is
\* dropped from a search and makes a lookup throw INCOMPLETE_DATA.
C30_GenericEnergyNeverSurfaces ==
  \A c \in Calls :
    /\ (Done(c) /\ result[c].kind = "return") =>
         \A i \in 1..Len(result[c].items) :
           \E r \in RecordsRead(c) :
             /\ r.code = result[c].items[i].sourceId
             /\ ~OnlyGenericEnergy(r)
             /\ r.nutriments.keys \cap {"energy-kcal_100g", "energy_100g", "energy-kcal"} # {}
             /\ result[c].items[i].caloriesPer100g.n =
                  (IF RawEnergy(r).kJ THEN 10 * RoundDiv(10 * RawEnergy(r).value, 4184)
                   ELSE 10 * RoundDiv(RawEnergy(r).value, 100))
    /\ (Done(c) /\ fn[c] = "getFoodByBarcode" /\ IsPassedThrough(last[c])
          /\ last[c].body.json /\ last[c].body.status = 1 /\ last[c].body.hasProduct
          /\ OnlyGenericEnergy(last[c].body.product)) =>
         /\ result[c].kind = "throw" /\ result[c].code = "INCOMPLETE_DATA"

\* A search has returned one item out of a response that lists a record
\* whose only energy figure is generic and a record with energy-kcal and a
\* generic figure: the item is the latter's, with the 46 kcal of energy-kcal.
C30_Witness ==
  \E c \in Calls :
    /\ Done(c) /\ fn[c] = "searchFoods" /\ result[c].kind = "return"
    /\ Len(last[c].body.products) = 2
    /\ OnlyGenericEnergy(last[c].body.products[1])
    /\ "energy" \in last[c].body.products[2].nutriments.keys
    /\ Len(result[c].items) = 1
    /\ result[c].items[1].sourceId = last[c].body.products[2].code
    /\ result[c].items[1].caloriesPer100g = Some(460)

\* C28: once the hook is at rest (no timer pending, no call awaited, no error
\* shown), after any interleaving of search, loadMore and clear with the
\* responses, every item of results was returned for the current query, and
\* the page counter equals the number of pages put into results for it: a
\* loadMore response for a superseded query is not appended.
C28_ResultsBelongToCurrentQuery ==
  (hook.timers = {} /\ hook.awaiting = {} /\ hook.error = "") =>
    /\ \A i \in 1..Len(hook.from) : hook.from[i].query = hook.currentQuery
    /\ hook.loaded >= 1 => hook.currentPage = hook.loaded

\* C29: a search superseded by another call of search or by clear is never
\* sent: searchFoods is called by a debounce timer only for the query of the
\* last call of search, no earlier than debounceMs after that call and once;
\* calling search or clear sends nothing and takes no slot of the budget.
C29_SupersededSearchIsNeverSent ==
  [][/\ \A c \in Calls :
          (pc[c] = "idle" /\ pc'[c] # "idle" /\ via'[c] = "hook") =>
            LET n == Len(hook.typed) IN
            /\ n >= 1
            /\ hook.typed[n].op = "search"
            /\ arg'[c] = hook.typed[n].query
            /\ now >= hook.typed[n].at + debounceMs
            /\ n \notin hook.sent
            /\ hook'.sent = hook.sent \cup {n}
     /\ hook'.typed # hook.typed =>
          /\ requests' = requests
          /\ fetches' = fetches
          /\ pc' = pc
    ]_vars

\* Two searches 100 ms apart for different queries: only the second has been
\* sent, with one fetch and one timestamp in the search budget.
C29_Witness ==
  /\ Len(hook.typed) = 2
  /\ hook.typed[1].op = "search" /\ Len(hook.typed[1].query) >= minQueryLength
  /\ hook.typed[2].op = "search" /\ hook.typed[2].query # hook.typed[1].query
  /\ hook.typed[2].at = hook.typed[1].at + 100
  /\ hook.sent = {2}
  /\ \E c \in Calls :
       /\ via[c] = "hook" /\ arg[c] = hook.typed[2].query /\ fetches[c] = 1
       /\ \A d \in Calls \ {c} : pc[d] = "idle"
  /\ Len(requests["search"]) = 1

====
